---- MODULE Spec2Model ----
(***************************************************************************)
(* A model of src/main.py: the GitHub Enterprise MCP bridge.               *)
(*                                                                         *)
(* The server runs its tool calls as cooperative tasks that share one      *)
(* GitHubClient.  A task is suspended only while a request is in flight    *)
(* (session.get); everything between two awaits is one atomic step.        *)
(* The upstream API is the environment: it answers every request with an   *)
(* arbitrary response drawn from a bounded universe.                       *)
(*                                                                         *)
(* Encodings.  A JSON object / Python dict is a function from its keys;    *)
(* an absent key is absent from the DOMAIN.  A Python list is a sequence.  *)
(* The Link header is the sequence of the rel="..." names it carries, the  *)
(* empty string is the empty sequence.  Optional[T] is <<>> for None and   *)
(* <<v>> for a value v.  A member role string ("acme:Owner") is the        *)
(* sequence of its pieces (<<"acme", ":", "Owner">>): every ":" of the     *)
(* string is a piece of its own, no other piece holds one.                 *)
(***************************************************************************)
EXTENDS Integers, Sequences, FiniteSets, TLC

VARIABLES
    environ,        \* os.environ: the variables the server reads
    upstream,       \* the bodies of the pages the upstream holds, in order,
                    \* where its data is fixed; <<>> where it answers freely
    lifespan,       \* app_lifespan: how often it was entered, how many of
                    \* these contexts are active (between the yield and the
                    \* finally), and the error that ended the startup
    github_client,  \* the global GitHubClient: its attributes, None before
                    \* the first is constructed
    open_sessions,  \* history: the sessions the current client has created
                    \* and that nobody has closed
    now,            \* wall clock of the environment, in hours
    fetchedAt,      \* history: time the last full aggregate was fetched by a
                    \* tool, -1 if none
    pc,             \* per task: "idle" | "awaiting" | "done" | "failed"
    call,           \* per task: the tool call it runs, its arguments and, as
                    \* history, the time `at` of the call, the value `seen`
                    \* fetchedAt had then and the time `got` its first
                    \* response arrived (-1 before)
    page,           \* per task: local `page` of get_all_paginated_results
    all_results,    \* per task: local `all_results`
    reqs,           \* history, per task: the page of every request this call issued
    resps,          \* history, per task: every response this call received
    consumed_licenses_data, \* per task: what get_consumed_licenses returned
    result,         \* per task: the value the tool returned
    error,          \* per task: the exception the tool raised
    private_session, \* per task: local `session` of a resource handler
    raw,            \* seat functions: the raw seat under study
    detail,         \* seat functions: LicenseUserDetail built from raw
    roles,          \* seat functions: get_user_enterprise_roles' answer for raw
    organizations   \* seat functions: get_user_organizations' answer for raw

vars == <<environ, upstream, private_session, lifespan, github_client, open_sessions,
          now, fetchedAt, pc, call, page, all_results,
          reqs, resps, consumed_licenses_data, result, error, raw, detail, roles,
          organizations>>

lifeVars == <<environ, lifespan, upstream>>
serverVars == <<lifeVars, github_client, open_sessions, private_session,
                now, fetchedAt, pc, call, page, all_results,
                reqs, resps, consumed_licenses_data, result, error>>
seatVars == <<raw, detail, roles, organizations>>

-----------------------------------------------------------------------------
(* Bounds of the model *)

\* The upstream offers rel="next" only on pages before this one.
MaxPages == 3
\* The clock stops here.
MaxTime == 3
\* A member role string has at most this many pieces.
MaxRoleLen == 3
\* A seat has at most this many member role strings.
MaxRoles == 2
\* app_lifespan is entered at most this many times.
MaxLifespans == 2
\* A walk against an upstream that may offer a next page for ever is followed
\* up to the request for this page.
MaxWalk == 6

Tasks == {"t1", "t2"}

-----------------------------------------------------------------------------
(* Python values *)

EmptyMap == [k \in {} |-> 0]
None == <<>>
Some(v) == <<v>>

\* dict.get(key, default)
Get(d, key, default) == IF key \in DOMAIN d THEN d[key] ELSE default

\* dict.get(key): None when the key is absent
GetOpt(d, key) == IF key \in DOMAIN d THEN Some(d[key]) ELSE None

Range(s) == {s[i] : i \in DOMAIN s}

-----------------------------------------------------------------------------
(* Raw seats and the response models *)

\* A dict holding `key` when the option carries a value, empty otherwise.
Field(key, opt) == IF opt = None THEN EmptyMap ELSE key :> opt[1]

\* Mutant: a seat without license_type gets the empty string.
DefaultLicenseTypeEmpty == ""

\* user.get("license_type", "Unknown")
DefaultLicenseType == "Unknown"

\* LicenseUserDetail(...) as every handler builds it from a raw seat `user`.
\* Every scalar field of the record is <<v>> for a value v and <<>> for None,
\* the two str fields included (they never hold None).
\* The values of the fields that are present are taken to have the declared
\* types (pydantic's validation of a null or ill-typed value is not modelled).
LicenseUserDetail(user) ==
    [ github_com_login |-> Some(Get(user, "github_com_login", "")),
      github_com_name |-> GetOpt(user, "github_com_name"),
      license_type |-> Some(Get(user, "license_type", DefaultLicenseType)),
      github_com_profile |-> GetOpt(user, "github_com_profile"),
      github_com_verified_domain_emails |->
          Get(user, "github_com_verified_domain_emails", <<>>),
      github_com_saml_name_id |-> GetOpt(user, "github_com_saml_name_id"),
      github_com_two_factor_auth |-> GetOpt(user, "github_com_two_factor_auth"),
      github_com_user |-> GetOpt(user, "github_com_user"),
      enterprise_server_user |-> GetOpt(user, "enterprise_server_user"),
      visual_studio_subscription_user |->
          GetOpt(user, "visual_studio_subscription_user"),
      enterprise_server_user_ids |-> Get(user, "enterprise_server_user_ids", <<>>),
      github_com_member_roles |-> Get(user, "github_com_member_roles", <<>>),
      github_com_enterprise_roles |-> Get(user, "github_com_enterprise_roles", <<>>),
      github_com_orgs_with_pending_invites |->
          Get(user, "github_com_orgs_with_pending_invites", <<>>),
      enterprise_server_emails |-> Get(user, "enterprise_server_emails", <<>>),
      visual_studio_license_status |-> GetOpt(user, "visual_studio_license_status"),
      visual_studio_subscription_email |->
          GetOpt(user, "visual_studio_subscription_email"),
      total_user_accounts |-> GetOpt(user, "total_user_accounts") ]

\* Mutant: the singular role is appended to the list when it is not in it.
UserEnterpriseRolesUnified(user_data) ==
    LET plural == Get(user_data, "github_com_enterprise_roles", <<>>)
    IN  IF "github_com_enterprise_role" \in DOMAIN user_data
           /\ user_data["github_com_enterprise_role"] \notin Range(plural)
        THEN Append(plural, user_data["github_com_enterprise_role"])
        ELSE plural

\* What get_user_enterprise_roles returns for the seat it found.
UserEnterpriseRoles(user_data) == Get(user_data, "github_com_enterprise_roles", <<>>)

\* ":" in role_string
HasColon(role_string) == \E i \in DOMAIN role_string : role_string[i] = ":"

\* Mutant: the string is split at its last ":".
SplitLast(role_string) ==
    LET i == CHOOSE k \in DOMAIN role_string :
                 role_string[k] = ":"
                 /\ \A j \in DOMAIN role_string : j > k => role_string[j] # ":"
    IN  [ organization |-> SubSeq(role_string, 1, i - 1),
          role |-> SubSeq(role_string, i + 1, Len(role_string)) ]

\* org, role = role_string.split(":", 1); UserOrganization(organization=org, role=role)
SplitOnce(role_string) ==
    LET i == CHOOSE k \in DOMAIN role_string :
                 role_string[k] = ":"
                 /\ \A j \in DOMAIN role_string : j < k => role_string[j] # ":"
    IN  [ organization |-> SubSeq(role_string, 1, i - 1),
          role |-> SubSeq(role_string, i + 1, Len(role_string)) ]

\* parse_member_roles(roles)
RECURSIVE parse_member_roles(_)
parse_member_roles(member_roles) ==
    IF member_roles = <<>> THEN <<>>
    ELSE (IF HasColon(Head(member_roles)) THEN <<SplitOnce(Head(member_roles))>>
          ELSE <<>>)
         \o parse_member_roles(Tail(member_roles))

\* Mutant: the scan has no break, the last seat with the login wins.
RECURSIVE FindUserLast(_, _)
FindUserLast(seats, username) ==
    IF seats = <<>> THEN None
    ELSE LET later == FindUserLast(Tail(seats), username)
         IN  IF later # None THEN later
             ELSE IF GetOpt(Head(seats), "github_com_login") = Some(username)
                  THEN Some(Head(seats))
                  ELSE None

\* The scan of the per-user tools: user_data is the first seat whose
\* github_com_login equals username, None when there is none.
RECURSIVE FindUser(_, _)
FindUser(seats, username) ==
    IF seats = <<>> THEN None
    ELSE IF GetOpt(Head(seats), "github_com_login") = Some(username)
         THEN Some(Head(seats))
         ELSE FindUser(Tail(seats), username)

\* if not user_data: no seat was found, or the seat found is an empty dict.
NotUserData(user_data) == user_data = None \/ user_data[1] = EmptyMap

\* ValueError(f"User '{username}' not found in consumed licenses data")
UserNotFound(username) ==
    [ kind |-> "ValueError", status |-> 0,
      text |-> "User not found in consumed licenses data", username |-> username ]

\* ValueError("Username is required")
UsernameRequired == [ kind |-> "ValueError", status |-> 0, text |-> "Username is required" ]

\* The list comprehension building response.users.
RECURSIVE UserDetails(_)
UserDetails(seats) ==
    IF seats = <<>> THEN <<>>
    ELSE <<LicenseUserDetail(Head(seats))>> \o UserDetails(Tail(seats))

\* ConsumedLicensesResponse as list_consumed_licenses builds it from the data
\* get_consumed_licenses returned.
ConsumedLicensesResponse(data, include_users) ==
    [ summary |->
          [ total_seats_consumed |-> Get(data, "total_seats_consumed", 0),
            total_seats_purchased |-> Get(data, "total_seats_purchased", 0) ],
      users |-> IF include_users /\ "seats" \in DOMAIN data
                THEN Some(UserDetails(Get(data, "seats", <<>>)))
                ELSE None ]

\* Seats the upstream serves in the server specifications.
SeatA ==
    [ github_com_login |-> "alice",
      license_type |-> "enterprise",
      github_com_member_roles |-> << <<"acme", ":", "Owner">> >>,
      github_com_enterprise_roles |-> <<"owner">> ]
SeatB == [ github_com_login |-> "bob" ]
SeatC ==
    [ github_com_login |-> "carol",
      github_com_enterprise_role |-> "owner",
      github_com_enterprise_roles |-> <<"admin">> ]

-----------------------------------------------------------------------------
(* GitHubClient *)

\* self.session = None
NoSession == [id |-> 0, closed |-> FALSE]

\* Mutant: every request gets a session of its own.
ensure_session_always(session) == [id |-> session.id + 1, closed |-> FALSE]

\* ensure_session: a new session when there is none or it is closed.
ensure_session(session) ==
    IF session = NoSession \/ session.closed
    THEN [id |-> session.id + 1, closed |-> FALSE]
    ELSE session

\* close: the session is closed when there is one and it is open.
close(session) ==
    IF session # NoSession /\ ~session.closed
    THEN [session EXCEPT !.closed = TRUE]
    ELSE session

\* GitHubClient.__init__
GitHubClient(token, enterprise_base_url) ==
    [ token |-> token, enterprise_base_url |-> enterprise_base_url,
      session |-> NoSession ]

\* Mutant: the URL is looked at before the token.
StartupErrorUrlFirst(env) ==
    IF GetOpt(env, "GITHUB_ENTERPRISE_URL") \in {None, Some(<<>>)}
    THEN Some([ kind |-> "ValueError",
                text |-> "GITHUB_ENTERPRISE_URL environment variable is required" ])
    ELSE IF GetOpt(env, "GITHUB_TOKEN") \in {None, Some("")}
         THEN Some([ kind |-> "ValueError",
                     text |-> "GITHUB_TOKEN environment variable is required" ])
         ELSE None

\* The checks of app_lifespan: `if not token` and then `if not enterprise_url`
\* raise; None when both pass.  A URL is the sequence of its pieces, every
\* "/" that matters a piece of its own, the empty string the empty sequence.
StartupError(env) ==
    IF GetOpt(env, "GITHUB_TOKEN") \in {None, Some("")}
    THEN Some([ kind |-> "ValueError",
                text |-> "GITHUB_TOKEN environment variable is required" ])
    ELSE IF GetOpt(env, "GITHUB_ENTERPRISE_URL") \in {None, Some(<<>>)}
         THEN Some([ kind |-> "ValueError",
                     text |-> "GITHUB_ENTERPRISE_URL environment variable is required" ])
         ELSE None

\* if enterprise_url.endswith('/'): enterprise_url = enterprise_url[:-1]
StripSlash(enterprise_url) ==
    IF enterprise_url # <<>> /\ enterprise_url[Len(enterprise_url)] = "/"
    THEN SubSeq(enterprise_url, 1, Len(enterprise_url) - 1)
    ELSE enterprise_url

\* Mutant: the walk starts one page late.
StartPageLate == 1 + 1

\* page = 1
StartPage == 1

\* Mutant: all_results is shared: a walk starts from the aggregate another
\* running walk is building.
InitialResultsShared ==
    LET live == {t \in Tasks : all_results[t] # EmptyMap}
    IN  IF live # {}
        THEN all_results[CHOOSE t \in live : TRUE]
        ELSE [ total_seats_purchased |-> 0, total_seats_consumed |-> 0, seats |-> <<>> ]

\* The default structure all_results starts with.
InitialResults ==
    [ total_seats_purchased |-> 0, total_seats_consumed |-> 0, seats |-> <<>> ]

\* Mutant: the summary is taken from every page, so the last page wins.
MergeSummaryEveryPage(all, p, current_page_data) ==
    [all EXCEPT
        !.total_seats_purchased = Get(current_page_data, "total_seats_purchased", 0),
        !.total_seats_consumed = Get(current_page_data, "total_seats_consumed", 0)]

\* if page == 1: take the summary of the page's body.
MergeSummary(all, p, current_page_data) ==
    IF p = 1
    THEN [all EXCEPT
            !.total_seats_purchased = Get(current_page_data, "total_seats_purchased", 0),
            !.total_seats_consumed = Get(current_page_data, "total_seats_consumed", 0)]
    ELSE all

\* Mutant: the page's seats replace the aggregate's instead of extending them.
ExtendSeatsAssign(all, current_page_data) ==
    IF "seats" \in DOMAIN current_page_data
    THEN [all EXCEPT !.seats = current_page_data["seats"]]
    ELSE all

\* if "seats" in current_page_data: all_results["seats"].extend(...)
ExtendSeats(all, current_page_data) ==
    IF "seats" \in DOMAIN current_page_data
    THEN [all EXCEPT !.seats = @ \o current_page_data["seats"]]
    ELSE all

\* response.headers.get("Link", "")
LinkHeader(headers) == Get(headers, "Link", <<>>)

\* Mutant: only an empty Link header ends the walk.
DonePaginatingEmptyOnly(link_header) == link_header = <<>>

\* not link_header or 'rel="next"' not in link_header
DonePaginating(link_header) ==
    link_header = <<>> \/ ~(\E i \in DOMAIN link_header : link_header[i] = "next")

\* Mutant: the loop gives up after three pages.
LoopControlCeiling(response) ==
    IF response.raised THEN "failed"
    ELSE IF response.status = 200
         THEN IF DonePaginating(LinkHeader(response.headers))
                 \/ \E q \in Tasks : pc[q] = "awaiting" /\ page[q] >= 3
              THEN "done"
              ELSE "awaiting"
         ELSE "failed"

\* Mutant: a failed page request ends the loop; what was gathered is returned.
LoopControlBreakOnFailure(response) ==
    IF response.raised THEN "done"
    ELSE IF response.status = 200
         THEN IF DonePaginating(LinkHeader(response.headers)) THEN "done"
              ELSE "awaiting"
         ELSE "done"

\* Mutant: a failure with one of these statuses, or a failed connection, sends
\* the same request again.
LoopControlRetry(response) ==
    IF response.raised \/ response.status \in {429, 500, 502, 503, 504}
    THEN "awaiting"
    ELSE IF response.status = 200
         THEN IF DonePaginating(LinkHeader(response.headers)) THEN "done"
              ELSE "awaiting"
         ELSE "failed"

\* Where one iteration of the pagination loop leaves the task: the loop goes on
\* ("awaiting" the next request), breaks ("done") or raises ("failed").
LoopControl(response) ==
    IF response.raised THEN "failed"
    ELSE IF response.status = 200
         THEN IF DonePaginating(LinkHeader(response.headers)) THEN "done"
              ELSE "awaiting"
         ELSE "failed"

\* Mutant: get asks again when the page offers a next one.
GetControlFollowsNext(response) ==
    IF response.raised THEN "failed"
    ELSE IF response.status = 200
         THEN IF DonePaginating(LinkHeader(response.headers)) THEN "done"
              ELSE "awaiting"
         ELSE "failed"

\* Mutant: get sends the request again after any failure.
GetControlRetry(response) ==
    IF response.raised THEN "awaiting"
    ELSE IF response.status = 200 THEN "done" ELSE "awaiting"

\* Where GitHubClient.get leaves the task: it returns or raises.
GetControl(response) ==
    IF response.raised THEN "failed"
    ELSE IF response.status = 200 THEN "done" ELSE "failed"

\* Mutant: the exception names the status only.
RequestErrorNoBody(response) ==
    IF response.raised
    THEN [kind |-> "ClientError", status |-> 0, text |-> ""]
    ELSE [kind |-> "GitHub API error", status |-> response.status, text |-> ""]

\* The exception of a failed request: the transport's own error, or
\* Exception(f"GitHub API error: {response.status} - {text}").
RequestError(response) ==
    IF response.raised
    THEN [kind |-> "ClientError", status |-> 0, text |-> ""]
    ELSE [kind |-> "GitHub API error", status |-> response.status,
          text |-> response.text]

\* Mutant: the request is not sent.
SessionGetNotSent(log, p) == log

\* session.get(url, params=params): the request goes out.
SessionGet(log, p) == Append(log, p)

\* Mutant: a page is skipped.
NextPageSkip(p) == p + 2

\* page += 1
NextPage(p) == p + 1

\* per_page: int = 100
PerPage == 100

\* params = {"per_page": per_page, "page": page}
Params(p) == [per_page |-> PerPage, page |-> p]

\* GitHubClient.get is called without params.
NoParams == EmptyMap

-----------------------------------------------------------------------------
(* The upstream API: the responses it may give *)

Response200(body, headers) ==
    [raised |-> FALSE, status |-> 200, json |-> body, text |-> "", headers |-> headers]
ResponseError(status) ==
    [raised |-> FALSE, status |-> status, json |-> EmptyMap, text |-> "error body",
     headers |-> EmptyMap]
\* session.get raises: no response at all.
ConnectionFailure ==
    [raised |-> TRUE, status |-> 0, json |-> EmptyMap, text |-> "", headers |-> EmptyMap]

\* The response carries a Link header with a rel="next" entry.
OffersNext(r) ==
    /\ ~r.raised
    /\ "Link" \in DOMAIN r.headers
    /\ "next" \in Range(r.headers["Link"])

RichSummaries ==
    { EmptyMap,
      [total_seats_purchased |-> 0, total_seats_consumed |-> 0],
      [total_seats_purchased |-> 50, total_seats_consumed |-> 40],
      [total_seats_purchased |-> 7] }
RichSeatLists == { None, Some(<<SeatA>>), Some(<<SeatB, SeatC>>) }
RichBodies == { s @@ Field("seats", l) : s \in RichSummaries, l \in RichSeatLists }
RichHeaders ==
    { EmptyMap,
      [Link |-> <<>>],
      [Link |-> <<"prev", "first">>],
      [Link |-> <<"next", "last">>] }
ErrorStatuses == {401, 403, 404, 429, 500, 502, 503, 504}

RichResponses ==
    { Response200(b, h) : b \in RichBodies, h \in RichHeaders }
        \cup { ResponseError(s) : s \in ErrorStatuses }
        \cup { ConnectionFailure }

ThinBodies ==
    { [total_seats_purchased |-> 50, total_seats_consumed |-> 40,
       seats |-> <<SeatA, SeatB>>],
      [seats |-> <<SeatC>>] }
ThinHeaders == { EmptyMap, [Link |-> <<"next", "last">>] }

ThinResponses ==
    { Response200(b, h) : b \in ThinBodies, h \in ThinHeaders }
        \cup { ResponseError(503) }

\* The chain of pages is finite: from page MaxPages on there is no next page.
Answers(universe, p) == { r \in universe : p >= MaxPages => ~OffersNext(r) }

-----------------------------------------------------------------------------
(* The tasks *)

NoCall ==
    [op |-> "", include_users |-> FALSE, username |-> "", full |-> FALSE,
     at |-> 0, seen |-> -1, got |-> -1]

\* The handlers of github://consumed-licenses/{dummy} and
\* github://user/{username}/roles.
Resources == {"get_github_consumed_licenses", "get_github_user_roles"}

\* The tools that look one user up.
UserTools == {"get_user_organizations", "get_user_enterprise_roles", "get_user_detail"}

\* The seat a per-user tool finds in the data get_consumed_licenses returned.
UserData(c, data) == FindUser(Get(data, "seats", <<>>), c.username)

\* The tool raises after get_consumed_licenses has returned `data`.
ToolRaises(c, data) == c.op \in UserTools /\ NotUserData(UserData(c, data))

\* What the tool returns once get_consumed_licenses has returned `data`.
ToolReturn(c, data) ==
    CASE c.op = "list_consumed_licenses" ->
             ConsumedLicensesResponse(data, c.include_users)
      [] c.op = "get_user_organizations" ->
             parse_member_roles(Get(UserData(c, data)[1], "github_com_member_roles", <<>>))
      [] c.op = "get_user_enterprise_roles" -> UserEnterpriseRoles(UserData(c, data)[1])
      [] c.op = "get_user_detail" -> LicenseUserDetail(UserData(c, data)[1])

\* A task that runs no call has no locals.
NoResults == EmptyMap

Idle(q) ==
    /\ page' = [page EXCEPT ![q] = 0]
    /\ all_results' = [all_results EXCEPT ![q] = NoResults]
    /\ reqs' = [reqs EXCEPT ![q] = <<>>]
    /\ resps' = [resps EXCEPT ![q] = <<>>]
    /\ consumed_licenses_data' = [consumed_licenses_data EXCEPT ![q] = None]
    /\ result' = [result EXCEPT ![q] = None]
    /\ error' = [error EXCEPT ![q] = None]
    /\ private_session' = [private_session EXCEPT ![q] = NoSession]

\* An environment with which the server starts.
GoodEnviron ==
    [ GITHUB_TOKEN |-> "ghp_token",
      GITHUB_ENTERPRISE_URL |-> <<"https://ghe.test/api/v3">> ]

\* No task runs, no time has passed.
InitTasks ==
    /\ now = 0
    /\ fetchedAt = -1
    /\ pc = [q \in Tasks |-> "idle"]
    /\ call = [q \in Tasks |-> NoCall]
    /\ page = [q \in Tasks |-> 0]
    /\ all_results = [q \in Tasks |-> NoResults]
    /\ reqs = [q \in Tasks |-> <<>>]
    /\ resps = [q \in Tasks |-> <<>>]
    /\ consumed_licenses_data = [q \in Tasks |-> None]
    /\ result = [q \in Tasks |-> None]
    /\ error = [q \in Tasks |-> None]
    /\ private_session = [q \in Tasks |-> NoSession]

\* The server has started: the client is constructed.
InitClient ==
    /\ environ = GoodEnviron
    /\ lifespan = [entered |-> 1, active |-> 1, error |-> None]
    /\ github_client = GitHubClient(environ["GITHUB_TOKEN"],
                                    StripSlash(environ["GITHUB_ENTERPRISE_URL"]))
    /\ open_sessions = {}

\* The server has started and serves; the upstream answers freely.
InitServer ==
    /\ InitClient
    /\ upstream = <<>>
    /\ InitTasks

Init ==
    /\ InitServer
    /\ raw = EmptyMap
    /\ detail = None
    /\ roles = None
    /\ organizations = None

\* session = await self.ensure_session()
UseSession ==
    /\ github_client' = [github_client EXCEPT !.session = ensure_session(@)]
    /\ open_sessions' = open_sessions \cup {github_client'.session.id}

\* Mutant: the document another task has just been given is kept and served
\* without a request; a request is sent only when there is none.
CallListConsumedLicensesCached(q, include_users, full_pagination) ==
    /\ pc[q] = "idle"
    /\ lifespan.active >= 1
    /\ call' = [call EXCEPT ![q] = [op |-> "list_consumed_licenses",
                                    include_users |-> include_users,
                                    username |-> "",
                                    full |-> full_pagination,
                                    at |-> now, seen |-> fetchedAt, got |-> -1]]
    /\ resps' = [resps EXCEPT ![q] = <<>>]
    /\ IF \E o \in Tasks : pc[o] = "done"
       THEN LET o == CHOOSE t \in Tasks : pc[t] = "done"
            IN  /\ pc' = [pc EXCEPT ![q] = "done"]
                /\ consumed_licenses_data' =
                       [consumed_licenses_data EXCEPT ![q] = consumed_licenses_data[o]]
                /\ result' = [result EXCEPT ![q] =
                       Some(ConsumedLicensesResponse(consumed_licenses_data[o][1],
                                                     include_users))]
                /\ UNCHANGED <<github_client, open_sessions, page, all_results, reqs>>
       ELSE /\ UseSession
            /\ pc' = [pc EXCEPT ![q] = "awaiting"]
            /\ page' = [page EXCEPT ![q] = IF full_pagination THEN StartPage ELSE 0]
            /\ all_results' = [all_results EXCEPT ![q] =
                                 IF full_pagination THEN InitialResults ELSE NoResults]
            /\ reqs' = [reqs EXCEPT ![q] =
                          SessionGet(<<>>, IF full_pagination THEN Params(StartPage)
                                           ELSE NoParams)]
            /\ UNCHANGED <<consumed_licenses_data, result>>
    /\ UNCHANGED <<now, fetchedAt, error, private_session, seatVars, lifeVars>>

\* list_consumed_licenses(include_users, full_pagination) up to its first await:
\* get_consumed_licenses picks get_all_paginated_results or get, which ensures
\* the session and sends the first request.
CallListConsumedLicenses(q, include_users, full_pagination) ==
    /\ pc[q] = "idle"
    /\ lifespan.active >= 1
    /\ UseSession
    /\ call' = [call EXCEPT ![q] = [op |-> "list_consumed_licenses",
                                    include_users |-> include_users,
                                    username |-> "",
                                    full |-> full_pagination,
                                    at |-> now, seen |-> fetchedAt, got |-> -1]]
    /\ pc' = [pc EXCEPT ![q] = "awaiting"]
    /\ page' = [page EXCEPT ![q] = IF full_pagination THEN StartPage ELSE 0]
    /\ all_results' = [all_results EXCEPT ![q] =
                         IF full_pagination THEN InitialResults ELSE NoResults]
    /\ reqs' = [reqs EXCEPT ![q] =
                  SessionGet(<<>>, IF full_pagination THEN Params(StartPage)
                                   ELSE NoParams)]
    /\ resps' = [resps EXCEPT ![q] = <<>>]
    /\ UNCHANGED <<now, fetchedAt, consumed_licenses_data, result, error, private_session,
                   seatVars, lifeVars>>

\* Mutant: the username is not looked at.
UsernameMissingNever(username) == FALSE

\* if not username
UsernameMissing(username) == username = ""

\* get_user_organizations, get_user_enterprise_roles or get_user_detail
\* (username, full_pagination) up to its first await: an empty username raises
\* before anything is asked of the client; otherwise as list_consumed_licenses.
CallUserTool(q, op, username, full_pagination) ==
    /\ pc[q] = "idle"
    /\ lifespan.active >= 1
    /\ op \in UserTools
    /\ call' = [call EXCEPT ![q] = [op |-> op, include_users |-> FALSE,
                                    username |-> username,
                                    full |-> full_pagination,
                                    at |-> now, seen |-> fetchedAt, got |-> -1]]
    /\ resps' = [resps EXCEPT ![q] = <<>>]
    /\ IF UsernameMissing(username)
       THEN /\ pc' = [pc EXCEPT ![q] = "failed"]
            /\ error' = [error EXCEPT ![q] = Some(UsernameRequired)]
            /\ reqs' = [reqs EXCEPT ![q] = <<>>]
            /\ UNCHANGED <<github_client, open_sessions, page, all_results>>
       ELSE /\ UseSession
            /\ pc' = [pc EXCEPT ![q] = "awaiting"]
            /\ page' = [page EXCEPT ![q] = IF full_pagination THEN StartPage ELSE 0]
            /\ all_results' = [all_results EXCEPT ![q] =
                                 IF full_pagination THEN InitialResults ELSE NoResults]
            /\ reqs' = [reqs EXCEPT ![q] =
                          SessionGet(<<>>, IF full_pagination THEN Params(StartPage)
                                           ELSE NoParams)]
            /\ UNCHANGED error
    /\ UNCHANGED <<now, fetchedAt, consumed_licenses_data, result, private_session, seatVars,
                   lifeVars>>

\* One iteration of the loop of get_all_paginated_results, from the response to
\* the next request, the return (and the tool's own return or raise) or the
\* raise.
RespondPage(q, response) ==
    /\ pc[q] = "awaiting"
    /\ call[q].op \notin Resources
    /\ call[q].full
    /\ LET ok == ~response.raised /\ response.status = 200
           merged == IF ok
                     THEN ExtendSeats(MergeSummary(all_results[q], page[q], response.json),
                                      response.json)
                     ELSE all_results[q]
           ctl == LoopControl(response)
           next_page == IF ok /\ ctl = "awaiting" THEN NextPage(page[q]) ELSE page[q]
           raises == ctl = "done" /\ ToolRaises(call[q], merged)
       IN  /\ resps' = [resps EXCEPT ![q] = Append(@, response)]
           /\ all_results' = [all_results EXCEPT ![q] = merged]
           /\ pc' = [pc EXCEPT ![q] = IF raises THEN "failed" ELSE ctl]
           /\ page' = [page EXCEPT ![q] = next_page]
           /\ reqs' = [reqs EXCEPT ![q] =
                         IF ctl = "awaiting" THEN SessionGet(@, Params(next_page)) ELSE @]
           /\ consumed_licenses_data' =
                  [consumed_licenses_data EXCEPT ![q] =
                         IF ctl = "done" THEN Some(merged) ELSE @]
           /\ result' = [result EXCEPT ![q] =
                         IF ctl = "done" /\ ~raises
                         THEN Some(ToolReturn(call[q], merged))
                         ELSE @]
           /\ error' = [error EXCEPT ![q] =
                         IF ctl = "failed" THEN Some(RequestError(response))
                         ELSE IF raises THEN Some(UserNotFound(call[q].username))
                         ELSE @]
           /\ fetchedAt' = IF ctl = "done" THEN now ELSE fetchedAt
    /\ call' = [call EXCEPT ![q].got = IF @ = -1 THEN now ELSE @]
    /\ UNCHANGED <<github_client, open_sessions, now, private_session, seatVars, lifeVars>>

\* GitHubClient.get from its response to its return (and the tool's own return
\* or raise) or its raise.
RespondGet(q, response) ==
    /\ pc[q] = "awaiting"
    /\ call[q].op \notin Resources
    /\ ~call[q].full
    /\ LET ctl == GetControl(response)
           raises == ctl = "done" /\ ToolRaises(call[q], response.json)
       IN  /\ resps' = [resps EXCEPT ![q] = Append(@, response)]
           /\ pc' = [pc EXCEPT ![q] = IF raises THEN "failed" ELSE ctl]
           /\ reqs' = [reqs EXCEPT ![q] =
                         IF ctl = "awaiting" THEN SessionGet(@, NoParams) ELSE @]
           /\ consumed_licenses_data' =
                  [consumed_licenses_data EXCEPT ![q] =
                         IF ctl = "done" THEN Some(response.json) ELSE @]
           /\ result' = [result EXCEPT ![q] =
                         IF ctl = "done" /\ ~raises
                         THEN Some(ToolReturn(call[q], response.json))
                         ELSE @]
           /\ error' = [error EXCEPT ![q] =
                         IF ctl = "failed" THEN Some(RequestError(response))
                         ELSE IF raises THEN Some(UserNotFound(call[q].username))
                         ELSE @]
    /\ call' = [call EXCEPT ![q].got = IF @ = -1 THEN now ELSE @]
    /\ UNCHANGED <<github_client, open_sessions, now, fetchedAt, page, all_results,
                   private_session, seatVars, lifeVars>>

\* Mutant: a hit does not end the walk of the roles resource.
UserFoundNever(user_data) == FALSE

\* if user_data: break
UserFound(user_data) == ~NotUserData(user_data)

\* What get_github_user_roles returns for the seat it found.
UserRoles(user_data) ==
    [ organizations |->
          parse_member_roles(Get(user_data, "github_com_member_roles", <<>>)),
      enterprise_roles |-> Get(user_data, "github_com_enterprise_roles", <<>>) ]

\* aiohttp.ClientSession(...) in a resource handler
NewSession == [id |-> 1, closed |-> FALSE]

\* Mutant: the session is closed only when the handler returns.
FinallyOnReturnOnly(ctl, s) == IF ctl = "done" THEN close(s) ELSE s

\* finally: await session.close(), once the handler returns or raises.
Finally(ctl, s) == IF ctl \in {"done", "failed"} THEN close(s) ELSE s

\* get_github_consumed_licenses(dummy) or get_github_user_roles(username) up
\* to its first await: the checks of the environment, the session of its own,
\* the request for page 1.
CallResource(q, op, username) ==
    /\ pc[q] = "idle"
    /\ lifespan.active >= 1
    /\ op \in Resources
    /\ call' = [call EXCEPT ![q] = [op |-> op, include_users |-> TRUE,
                                    username |-> username, full |-> TRUE,
                                    at |-> now, seen |-> fetchedAt, got |-> -1]]
    /\ resps' = [resps EXCEPT ![q] = <<>>]
    /\ IF StartupError(environ) # None
       THEN /\ pc' = [pc EXCEPT ![q] = "failed"]
            /\ error' = [error EXCEPT ![q] = StartupError(environ)]
            /\ reqs' = [reqs EXCEPT ![q] = <<>>]
            /\ UNCHANGED <<private_session, page, all_results>>
       ELSE /\ private_session' = [private_session EXCEPT ![q] = NewSession]
            /\ pc' = [pc EXCEPT ![q] = "awaiting"]
            /\ page' = [page EXCEPT ![q] = StartPage]
            /\ all_results' = [all_results EXCEPT ![q] =
                                 IF op = "get_github_consumed_licenses"
                                 THEN InitialResults ELSE NoResults]
            /\ reqs' = [reqs EXCEPT ![q] = SessionGet(<<>>, Params(StartPage))]
            /\ UNCHANGED error
    /\ UNCHANGED <<github_client, open_sessions, now, fetchedAt,
                   consumed_licenses_data, result, seatVars, lifeVars>>

\* One iteration of the loop of a resource handler, from the response to the
\* next request or, through the finally clause, to the return or the raise.
RespondResource(q, response) ==
    /\ pc[q] = "awaiting"
    /\ call[q].op \in Resources
    /\ LET whole == call[q].op = "get_github_consumed_licenses"
           ok == ~response.raised /\ response.status = 200
           merged == IF ok /\ whole
                     THEN ExtendSeats(MergeSummary(all_results[q], page[q], response.json),
                                      response.json)
                     ELSE all_results[q]
           user_data == IF ok /\ ~whole
                        THEN FindUser(Get(response.json, "seats", <<>>), call[q].username)
                        ELSE None
           found == ok /\ ~whole /\ UserFound(user_data)
           ctl == IF found THEN "done" ELSE LoopControl(response)
           raises == ~whole /\ ctl = "done" /\ ~found
           end == IF raises THEN "failed" ELSE ctl
       IN  /\ resps' = [resps EXCEPT ![q] = Append(@, response)]
           /\ all_results' = [all_results EXCEPT ![q] = merged]
           /\ pc' = [pc EXCEPT ![q] = end]
           /\ page' = [page EXCEPT ![q] = IF end = "awaiting" THEN NextPage(@) ELSE @]
           /\ reqs' = [reqs EXCEPT ![q] =
                         IF end = "awaiting" THEN SessionGet(@, Params(NextPage(page[q])))
                         ELSE @]
           /\ result' = [result EXCEPT ![q] =
                         IF end = "done"
                         THEN Some(IF whole THEN ConsumedLicensesResponse(merged, TRUE)
                                   ELSE UserRoles(user_data[1]))
                         ELSE @]
           /\ error' = [error EXCEPT ![q] =
                         IF ctl = "failed" THEN Some(RequestError(response))
                         ELSE IF raises THEN Some(UserNotFound(call[q].username))
                         ELSE @]
           /\ private_session' = [private_session EXCEPT ![q] = Finally(end, @)]
    /\ call' = [call EXCEPT ![q].got = IF @ = -1 THEN now ELSE @]
    /\ UNCHANGED <<github_client, open_sessions, now, fetchedAt,
                   consumed_licenses_data, seatVars, lifeVars>>

\* The host takes the tool's result or failure; the task is free for a new call.
Finish(q) ==
    /\ pc[q] \in {"done", "failed"}
    /\ pc' = [pc EXCEPT ![q] = "idle"]
    /\ call' = [call EXCEPT ![q] = NoCall]
    /\ Idle(q)
    /\ UNCHANGED <<github_client, open_sessions, now, fetchedAt, seatVars, lifeVars>>

\* Time passes.
Tick ==
    /\ now < MaxTime
    /\ now' = now + 1
    /\ UNCHANGED <<github_client, open_sessions, private_session, fetchedAt, pc, call, page,
                   all_results, reqs, resps, consumed_licenses_data, result, error,
                   seatVars, lifeVars>>

\* The server: concurrent tool calls against a changing upstream (the clock
\* stands still: the code reads no clock).
Next ==
    \/ \E q \in Tasks, iu \in BOOLEAN, full \in BOOLEAN :
           CallListConsumedLicenses(q, iu, full)
    \/ \E q \in Tasks : \E r \in Answers(ThinResponses, page[q]) : RespondPage(q, r)
    \/ \E q \in Tasks : \E r \in ThinResponses : RespondGet(q, r)
    \/ \E q \in Tasks : Finish(q)

Spec == Init /\ [][Next]_vars

\* One task calling again and again while time passes.
NextCache ==
    \/ \E iu \in BOOLEAN, full \in BOOLEAN : CallListConsumedLicenses("t1", iu, full)
    \/ \E r \in Answers(ThinResponses, page["t1"]) : RespondPage("t1", r)
    \/ \E r \in ThinResponses : RespondGet("t1", r)
    \/ Finish("t1")
    \/ Tick

SpecCache == Init /\ [][NextCache]_vars

\* A short chain of small pages.
StaleResponses ==
    { Response200([total_seats_purchased |-> 50, seats |-> <<SeatB>>], h) :
          h \in ThinHeaders }
        \cup { ResponseError(503) }

\* Concurrent calls while time passes.
NextStale ==
    \/ \E q \in Tasks, full \in BOOLEAN : CallListConsumedLicenses(q, FALSE, full)
    \/ \E q \in Tasks : \E r \in Answers(StaleResponses, page[q]) : RespondPage(q, r)
    \/ \E q \in Tasks : \E r \in StaleResponses : RespondGet(q, r)
    \/ \E q \in Tasks : Finish(q)
    \/ Tick

SpecStale == Init /\ [][NextStale]_vars

\* The upstream answers the request in flight, with a next page on offer as
\* often as it likes.
AnswerPage ==
    /\ page["t1"] < MaxWalk
    /\ \E r \in ThinResponses : RespondPage("t1", r)

\* One walk at a time against an upstream whose chain of pages need not end.
NextUnbounded ==
    \/ \E iu \in BOOLEAN : CallListConsumedLicenses("t1", iu, TRUE)
    \/ AnswerPage
    \/ Finish("t1")

\* Every request is answered in the end (a response, or the failure of the
\* connection), and the host takes every result.
SpecUnbounded ==
    /\ Init
    /\ [][NextUnbounded]_vars
    /\ WF_vars(AnswerPage)
    /\ WF_vars(Finish("t1"))

\* The environments the server may be started in.
Environs ==
    { Field("GITHUB_TOKEN", t) @@ Field("GITHUB_ENTERPRISE_URL", u) :
        t \in { None, Some(""), Some("ghp_token") },
        u \in { None, Some(<<>>), Some(<<"https://ghe.test/api/v3">>),
                Some(<<"https://ghe.test/api/v3", "/">>) } }

InitLife ==
    /\ environ \in Environs
    /\ lifespan = [entered |-> 0, active |-> 0, error |-> None]
    /\ github_client = None
    /\ open_sessions = {}
    /\ upstream = <<>>
    /\ InitTasks
    /\ raw = EmptyMap
    /\ detail = None
    /\ roles = None
    /\ organizations = None

\* app_lifespan up to its yield: the two checks, then the client.
Startup ==
    /\ lifespan.entered < MaxLifespans
    /\ lifespan.error = None
    /\ LET failure == StartupError(environ)
       IN  IF failure # None
           THEN /\ lifespan' = [lifespan EXCEPT !.entered = @ + 1, !.error = failure]
                /\ UNCHANGED <<github_client, open_sessions>>
           ELSE /\ lifespan' = [lifespan EXCEPT !.entered = @ + 1, !.active = @ + 1]
                /\ github_client' =
                       GitHubClient(environ["GITHUB_TOKEN"],
                                    StripSlash(environ["GITHUB_ENTERPRISE_URL"]))
                /\ open_sessions' = {}
    /\ UNCHANGED <<environ, upstream, private_session, now, fetchedAt, pc, call, page,
                   all_results, reqs, resps,
                   consumed_licenses_data, result, error, seatVars>>

\* app_lifespan from its yield on: finally: await github_client.close()
Shutdown ==
    /\ lifespan.active >= 1
    /\ lifespan' = [lifespan EXCEPT !.active = @ - 1]
    /\ github_client' = [github_client EXCEPT !.session = close(@)]
    /\ open_sessions' = IF github_client'.session.closed
                        THEN open_sessions \ {github_client'.session.id}
                        ELSE open_sessions
    /\ UNCHANGED <<environ, upstream, private_session, now, fetchedAt, pc, call, page,
                   all_results, reqs, resps,
                   consumed_licenses_data, result, error, seatVars>>

\* The server from its start to its end, with the calls it serves in between.
NextLife ==
    \/ Startup
    \/ Shutdown
    \/ \E q \in Tasks, full \in BOOLEAN : CallListConsumedLicenses(q, FALSE, full)
    \/ \E q \in Tasks : \E r \in Answers(StaleResponses, page[q]) : RespondPage(q, r)
    \/ \E q \in Tasks : \E r \in StaleResponses : RespondGet(q, r)
    \/ \E q \in Tasks : Finish(q)

SpecLife == InitLife /\ [][NextLife]_vars

-----------------------------------------------------------------------------
(* The seat functions on their own *)

RawLogins == { None, Some("alice") }
RawLicenseTypes == { None, Some("enterprise") }
RawRoleLists ==
    { None, Some(<<>>), Some(<<"admin">>), Some(<<"admin", "owner">>),
      Some(<<"owner", "admin">>) }
RawSingleRoles == { None, Some("owner"), Some("admin") }
RawMemberRoles == { None, Some(<< <<"acme", ":", "maintainer">> >>) }

RawNames == { None, Some("Alice A") }
RawTwoFactor == { None, Some(TRUE) }
RawAccounts == { None, Some(2) }
RawEmails == { None, Some(<<"alice@acme.test">>) }

\* Raw seats as the upstream may send them: any of the fields may be absent.
RawSeatInputs ==
    { Field("github_com_login", l) @@ Field("license_type", t)
          @@ Field("github_com_enterprise_roles", p)
          @@ Field("github_com_enterprise_role", r)
          @@ Field("github_com_member_roles", m)
          @@ Field("github_com_name", n)
          @@ Field("github_com_two_factor_auth", f)
          @@ Field("total_user_accounts", a)
          @@ Field("github_com_verified_domain_emails", e) :
        l \in RawLogins, t \in RawLicenseTypes, p \in RawRoleLists,
        r \in RawSingleRoles, m \in RawMemberRoles, n \in RawNames,
        f \in RawTwoFactor, a \in RawAccounts, e \in RawEmails }

InitSeat ==
    /\ InitServer
    /\ raw \in RawSeatInputs
    /\ detail = None
    /\ roles = None
    /\ organizations = None

\* The seat becomes a LicenseUserDetail (list_consumed_licenses, get_user_detail).
BuildDetail ==
    /\ detail = None
    /\ detail' = Some(LicenseUserDetail(raw))
    /\ UNCHANGED <<raw, roles, organizations, serverVars>>

\* get_user_enterprise_roles answers for the seat.
ReadEnterpriseRoles ==
    /\ roles = None
    /\ roles' = Some(UserEnterpriseRoles(raw))
    /\ UNCHANGED <<raw, detail, organizations, serverVars>>

NextSeat == BuildDetail \/ ReadEnterpriseRoles

SpecSeat == InitSeat /\ [][NextSeat]_vars

\* Member role strings: every string of up to MaxRoleLen pieces.
RolePieces == { "a", ":" }
RoleStrings == UNION { [1..n -> RolePieces] : n \in 0..MaxRoleLen }
RoleLists == UNION { [1..n -> RoleStrings] : n \in 0..MaxRoles }

InitParse ==
    /\ InitServer
    /\ raw \in { [github_com_member_roles |-> l] : l \in RoleLists }
    /\ detail = None
    /\ roles = None
    /\ organizations = None

\* get_user_organizations answers for the seat.
ReadOrganizations ==
    /\ organizations = None
    /\ organizations' =
           Some(parse_member_roles(Get(raw, "github_com_member_roles", <<>>)))
    /\ UNCHANGED <<raw, detail, roles, serverVars>>

NextParse == ReadOrganizations

SpecParse == InitParse /\ [][NextParse]_vars

\* One tool call at a time, against every response the upstream can give.
NextWalk ==
    \/ \E iu \in BOOLEAN, full \in BOOLEAN : CallListConsumedLicenses("t1", iu, full)
    \/ \E r \in Answers(RichResponses, page["t1"]) : RespondPage("t1", r)
    \/ \E r \in RichResponses : RespondGet("t1", r)
    \/ Finish("t1")

SpecWalk == Init /\ [][NextWalk]_vars

-----------------------------------------------------------------------------
(* The per-user tools *)

\* Seats that share a login, differ from one in case only, or have none.
SeatUpper ==
    [ github_com_login |-> "Alice",
      license_type |-> "visual_studio",
      github_com_enterprise_roles |-> <<"member">> ]
SeatA2 ==
    [ github_com_login |-> "alice",
      github_com_member_roles |-> << <<"beta", ":", "Member">>, <<"plain">> >>,
      github_com_enterprise_roles |-> <<"billing">> ]
SeatNoLogin == [ license_type |-> "enterprise" ]

UserBodies ==
    { [total_seats_purchased |-> 50, total_seats_consumed |-> 40,
       seats |-> <<SeatUpper, SeatA, SeatB>>],
      [seats |-> <<SeatNoLogin, SeatA2>>],
      EmptyMap }

UserResponses ==
    { Response200(b, h) : b \in UserBodies, h \in ThinHeaders }
        \cup { ResponseError(404) }

\* The usernames a caller passes: none, two that differ in case, an unknown one.
Usernames == { "", "alice", "Alice", "dave" }

\* One per-user tool call at a time.
NextUser ==
    \/ \E op \in UserTools, username \in Usernames, full \in BOOLEAN :
           CallUserTool("t1", op, username, full)
    \/ \E r \in Answers(UserResponses, page["t1"]) : RespondPage("t1", r)
    \/ \E r \in UserResponses : RespondGet("t1", r)
    \/ Finish("t1")

SpecUser == Init /\ [][NextUser]_vars

\* The upstream as a fixed chain of pages: every page answers 200, and every
\* page but the last offers the next one.
Chains ==
    UNION { [1..n -> UserBodies] : n \in 1..MaxPages }

ChainResponse(p) ==
    Response200(upstream[p],
                IF p < Len(upstream) THEN [Link |-> <<"next", "last">>] ELSE EmptyMap)

InitEquiv ==
    /\ InitClient
    /\ upstream \in Chains
    /\ InitTasks
    /\ raw = EmptyMap
    /\ detail = None
    /\ roles = None
    /\ organizations = None

\* The roles resource and the two tools it combines, read side by side over
\* the same chain; the tools walk every page, as they do by default.
NextEquiv ==
    \/ \E username \in Usernames \ {""} :
           CallResource("t1", "get_github_user_roles", username)
    \/ \E op \in {"get_user_organizations", "get_user_enterprise_roles"},
          username \in Usernames \ {""} :
           CallUserTool("t2", op, username, TRUE)
    \/ /\ page["t1"] \in 1..Len(upstream)
       /\ RespondResource("t1", ChainResponse(page["t1"]))
    \/ /\ page["t2"] \in 1..Len(upstream)
       /\ RespondPage("t2", ChainResponse(page["t2"]))
    \/ \E q \in Tasks : Finish(q)

SpecEquiv == InitEquiv /\ [][NextEquiv]_vars

\* What the upstream answers to a resource handler: pages, a refusal, or
\* nothing at all.
ResourceResponses == UserResponses \cup { ConnectionFailure }

\* Resource reads on one task while a tool uses the shared client on the
\* other.
NextResource ==
    \/ \E op \in Resources, username \in Usernames : CallResource("t1", op, username)
    \/ \E r \in Answers(ResourceResponses, page["t1"]) : RespondResource("t1", r)
    \/ \E full \in BOOLEAN : CallListConsumedLicenses("t2", FALSE, full)
    \/ \E r \in Answers(StaleResponses, page["t2"]) : RespondPage("t2", r)
    \/ \E r \in StaleResponses : RespondGet("t2", r)
    \/ \E q \in Tasks : Finish(q)

SpecResource == Init /\ [][NextResource]_vars

-----------------------------------------------------------------------------
(* What the claims speak of *)

\* The statuses the specification calls retryable.
RetryableStatuses == {429, 500, 502, 503, 504}

Last(seq) == seq[Len(seq)]

\* The task runs, or has just ended, a full pagination walk.
Walking(q) == pc[q] # "idle" /\ call[q].full

\* The response is a 200 page.
IsPage(r) == ~r.raised /\ r.status = 200

\* A connection-level failure or a response with a retryable status.
RetryableFailure(r) == r.raised \/ r.status \in RetryableStatuses

\* How many times the call has sent its latest request.
Attempts(q) == Cardinality({i \in DOMAIN reqs[q] : reqs[q][i] = Last(reqs[q])})

\* The seat lists of the pages, one after the other.
RECURSIVE ConcatSeats(_)
ConcatSeats(rs) ==
    IF rs = <<>> THEN <<>>
    ELSE (IF "seats" \in DOMAIN Head(rs).json THEN Head(rs).json["seats"] ELSE <<>>)
             \o ConcatSeats(Tail(rs))

RECURSIVE SumSeatCounts(_)
SumSeatCounts(rs) ==
    IF rs = <<>> THEN 0
    ELSE (IF "seats" \in DOMAIN Head(rs).json THEN Len(Head(rs).json["seats"]) ELSE 0)
             + SumSeatCounts(Tail(rs))

-----------------------------------------------------------------------------
(* C1..C6: one walk against every upstream, under SpecWalk *)

\* C1: in a full pagination walk the totals are those of the page-1 body (0 for
\* a total page 1 lacks), from the moment page 1 is read up to and including
\* the document returned: no later page changes them.
C1_TotalsFromFirstPage ==
    \A q \in Tasks :
        (Walking(q) /\ Len(resps[q]) >= 1 /\ IsPage(resps[q][1])) =>
            LET first == resps[q][1].json
            IN  /\ all_results[q].total_seats_purchased =
                       (IF "total_seats_purchased" \in DOMAIN first
                        THEN first.total_seats_purchased ELSE 0)
                /\ all_results[q].total_seats_consumed =
                       (IF "total_seats_consumed" \in DOMAIN first
                        THEN first.total_seats_consumed ELSE 0)
                /\ pc[q] = "done" =>
                       /\ consumed_licenses_data[q] = Some(all_results[q])
                       /\ result[q][1].summary =
                              [total_seats_consumed |-> all_results[q].total_seats_consumed,
                               total_seats_purchased |-> all_results[q].total_seats_purchased]

\* C1 witness: a walk returned zero totals from a page 1 that states them as
\* zero, although page 2 carried 50/40.
C1_Witness ==
    \E q \in Tasks :
        /\ Walking(q) /\ pc[q] = "done" /\ Len(resps[q]) >= 2
        /\ "total_seats_purchased" \in DOMAIN resps[q][1].json
        /\ resps[q][1].json.total_seats_purchased = 0
        /\ "total_seats_purchased" \in DOMAIN resps[q][2].json
        /\ resps[q][2].json.total_seats_purchased = 50
        /\ consumed_licenses_data[q][1].total_seats_purchased = 0
        /\ consumed_licenses_data[q][1].total_seats_consumed = 0

\* C2: the seats a completed full walk returns are the concatenation of the
\* seat lists of the pages it fetched, in page order then within-page order (a
\* page without a seat list adds nothing), and the users of the tool's answer
\* are these seats one for one.
C2_SeatsAreConcatenation ==
    \A q \in Tasks :
        (Walking(q) /\ pc[q] = "done") =>
            LET doc == consumed_licenses_data[q][1]
            IN  /\ doc.seats = ConcatSeats(resps[q])
                /\ Len(doc.seats) = SumSeatCounts(resps[q])
                /\ call[q].include_users =>
                       /\ result[q][1].users # None
                       /\ Len(result[q][1].users[1]) = Len(doc.seats)
                       /\ \A i \in DOMAIN doc.seats :
                              result[q][1].users[1][i].github_com_login =
                                  Some(doc.seats[i].github_com_login)

\* C2 witness: three pages, B and C on page 1, none on page 2, A on page 3.
C2_Witness ==
    \E q \in Tasks :
        /\ Walking(q) /\ pc[q] = "done" /\ call[q].include_users
        /\ Len(resps[q]) = 3
        /\ "seats" \notin DOMAIN resps[q][2].json
        /\ consumed_licenses_data[q][1].seats = <<SeatB, SeatC, SeatA>>
        /\ Len(result[q][1].users[1]) = 3

\* C3: a 200 page without a rel="next" entry (no Link header, an empty one, or
\* one with other relations only) ends the walk: the call has returned the
\* aggregate built so far and has sent no request after that page.
C3_NoNextEndsWalk ==
    \A q \in Tasks :
        (Walking(q) /\ Len(resps[q]) >= 1 /\ IsPage(Last(resps[q]))
                    /\ ~OffersNext(Last(resps[q]))) =>
            /\ pc[q] = "done"
            /\ Len(reqs[q]) = Len(resps[q])
            /\ error[q] = None
            /\ consumed_licenses_data[q] = Some(all_results[q])
            /\ result[q] # None

\* C3 witness: page 1 came with a Link header that has no rel="next" entry, and
\* the walk returned its seats.
C3_Witness ==
    \E q \in Tasks :
        /\ Walking(q) /\ pc[q] = "done" /\ Len(resps[q]) = 1 /\ Len(reqs[q]) = 1
        /\ resps[q][1].headers = [Link |-> <<"prev", "first">>]
        /\ consumed_licenses_data[q][1].seats = <<SeatA>>

C6_NonRetryableFailsAtOnce ==
    \A q \in Tasks :
        (pc[q] # "idle" /\ Len(resps[q]) >= 1
            /\ ~Last(resps[q]).raised
            /\ Last(resps[q]).status \notin ({200} \cup RetryableStatuses)) =>
            /\ pc[q] = "failed"
            /\ Attempts(q) = 1
            /\ Len(reqs[q]) = Len(resps[q])
            /\ error[q] = Some([kind |-> "GitHub API error",
                                status |-> Last(resps[q]).status,
                                text |-> Last(resps[q]).text])
            /\ result[q] = None

\* C6 witness: page 2 of a walk answered 404 and the walk failed with 404 and
\* the body.
C6_Witness ==
    \E q \in Tasks :
        /\ Walking(q) /\ pc[q] = "failed" /\ Len(resps[q]) = 2
        /\ resps[q][2].status = 404
        /\ error[q][1].status = 404 /\ error[q][1].text = "error body"

-----------------------------------------------------------------------------
(* C7, C8: calls repeated over time, under SpecCache; C9: concurrent calls,    *)
(* under Spec                                                                 *)

\* The client's stored cache entry: GitHubClient has no such attribute unless
\* some operation adds one.
StoredEntry ==
    IF "cache" \in DOMAIN github_client THEN Some(github_client["cache"]) ELSE None

\* An aggregate was fetched less than the TTL of 3 hours ago.
FreshAggregate == fetchedAt >= 0 /\ now - fetchedAt < 3

\* The step is task q starting a call.
Calls(q) == pc[q] = "idle" /\ pc'[q] # "idle"

-----------------------------------------------------------------------------
(* C10: the enterprise roles of a seat, under SpecSeat *)

\* The role list the specification describes: the plural list, then the
\* singular role when it is present and not in the list.
UnifiedRoles(seat) ==
    LET plural == IF "github_com_enterprise_roles" \in DOMAIN seat
                  THEN seat["github_com_enterprise_roles"] ELSE <<>>
    IN  IF "github_com_enterprise_role" \in DOMAIN seat
           /\ seat["github_com_enterprise_role"] \notin Range(plural)
        THEN Append(plural, seat["github_com_enterprise_role"])
        ELSE plural

-----------------------------------------------------------------------------
(* C11 *)

\* The positions of the seats whose login is exactly `username`.
Matches(seats, username) ==
    { i \in DOMAIN seats : /\ "github_com_login" \in DOMAIN seats[i]
                           /\ seats[i]["github_com_login"] = username }

First(S) == CHOOSE i \in S : \A j \in S : i <= j

\* What each per-user tool answers for a seat.
Answer(op, seat) ==
    CASE op = "get_user_organizations" ->
             parse_member_roles(IF "github_com_member_roles" \in DOMAIN seat
                                THEN seat["github_com_member_roles"] ELSE <<>>)
      [] op = "get_user_enterprise_roles" ->
             IF "github_com_enterprise_roles" \in DOMAIN seat
             THEN seat["github_com_enterprise_roles"] ELSE <<>>
      [] op = "get_user_detail" -> LicenseUserDetail(seat)

\* C11: once the license data is there, a per-user tool called with a
\* non-empty username returns the answer for the first seat, in the order of
\* the data, whose login equals the username character for character; when
\* no seat has that login it raises the not-found error naming the username
\* and returns nothing.
C11_FirstExactMatchOrNotFound ==
    \A q \in Tasks :
        (call[q].op \in UserTools /\ call[q].username # ""
            /\ consumed_licenses_data[q] # None) =>
        LET data == consumed_licenses_data[q][1]
            seats == IF "seats" \in DOMAIN data THEN data["seats"] ELSE <<>>
            m == Matches(seats, call[q].username)
        IN  IF m = {}
            THEN /\ pc[q] = "failed"
                 /\ result[q] = None
                 /\ error[q] # None
                 /\ error[q][1].kind = "ValueError"
                 /\ error[q][1].text = "User not found in consumed licenses data"
                 /\ error[q][1].username = call[q].username
            ELSE /\ pc[q] = "done"
                 /\ error[q] = None
                 /\ result[q] = Some(Answer(call[q].op, seats[First(m)]))

\* C11 witness: "alice" was looked up in data that holds "Alice" first and
\* "alice" twice; the answer is the one of the first "alice", which differs
\* from the one of the second.
C11_Witness ==
    /\ pc["t1"] = "done"
    /\ call["t1"].op = "get_user_enterprise_roles"
    /\ call["t1"].username = "alice"
    /\ consumed_licenses_data["t1"] # None
    /\ LET seats == consumed_licenses_data["t1"][1].seats
       IN  /\ Len(seats) = 5
           /\ seats[1]["github_com_login"] = "Alice"
           /\ Matches(seats, "alice") = {2, 5}
           /\ result["t1"] = Some(<<"owner">>)
           /\ seats[5]["github_com_enterprise_roles"] = <<"billing">>

-----------------------------------------------------------------------------
(* C12 *)

\* The positions of the role strings that hold a ":".
WithColon(l) == { i \in DOMAIN l : \E k \in DOMAIN l[i] : l[i][k] = ":" }

\* C12: parse_member_roles yields one entry for every role string that holds
\* a ":", in the order of the strings, and none for the others; the entry's
\* organization is the text before the first ":" (it holds no ":") and its
\* role is everything after that ":", further ":" included.
C12_SplitAtFirstColon ==
    organizations # None =>
        LET l == raw["github_com_member_roles"]
            orgs == organizations[1]
            kept == WithColon(l)
        IN  /\ Len(orgs) = Cardinality(kept)
            /\ \A i \in kept :
                   LET o == orgs[Cardinality({k \in kept : k <= i})]
                   IN  /\ DOMAIN o = {"organization", "role"}
                       /\ o.organization \o <<":">> \o o.role = l[i]
                       /\ \A k \in DOMAIN o.organization : o.organization[k] # ":"

\* C12 witness: of "a" and "a::" the first is dropped, the second gives
\* organization "a" with role ":".
C12_Witness ==
    /\ raw["github_com_member_roles"] = << <<"a">>, <<"a", ":", ":">> >>
    /\ organizations = Some(<< [organization |-> <<"a">>, role |-> <<":">>] >>)

-----------------------------------------------------------------------------
(* C13 *)

ListFields ==
    { "github_com_verified_domain_emails", "enterprise_server_user_ids",
      "github_com_member_roles", "github_com_enterprise_roles",
      "github_com_orgs_with_pending_invites", "enterprise_server_emails" }

\* The scalar fields declared Optional.
OptionalFields ==
    { "github_com_name", "github_com_profile", "github_com_saml_name_id",
      "github_com_two_factor_auth", "github_com_user", "enterprise_server_user",
      "visual_studio_subscription_user", "visual_studio_license_status",
      "visual_studio_subscription_email", "total_user_accounts" }

\* The fields that are present are copied, the absent list fields are empty
\* and an absent license type is "Unknown".
CopiedOrDefaulted(d) ==
    /\ DOMAIN d = ListFields \cup OptionalFields \cup {"github_com_login", "license_type"}
    /\ \A k \in ListFields :
           d[k] = IF k \in DOMAIN raw THEN raw[k] ELSE <<>>
    /\ \A k \in OptionalFields \cup {"github_com_login", "license_type"} :
           k \in DOMAIN raw => d[k] = <<raw[k]>>
    /\ "license_type" \notin DOMAIN raw => d["license_type"] = <<"Unknown">>

-----------------------------------------------------------------------------
(* C14 *)

-----------------------------------------------------------------------------
(* C15 *)

\* A client has been constructed.
Constructed == DOMAIN github_client # {}

\* The session is absent or closed.
Unusable(session) == session = [id |-> 0, closed |-> FALSE] \/ session.closed

\* C15: the client has at most one open session at any time, the one it
\* holds.  A new client has none; a request that finds the session absent or
\* closed puts a new open one in its place, a request that finds it open
\* leaves it as it is; a shutdown closes the open session and changes nothing
\* when the session is absent or already closed; no other step touches it.
C15_OneSessionLazyReusedClosed ==
    /\ [](Constructed =>
             /\ Cardinality(open_sessions) <= 1
             /\ open_sessions =
                    (IF Unusable(github_client.session) THEN {}
                     ELSE {github_client.session.id}))
    /\ [][(lifespan.entered' > lifespan.entered /\ lifespan'.error = <<>>) =>
              /\ github_client'.session = [id |-> 0, closed |-> FALSE]
              /\ open_sessions' = {}]_vars
    /\ [][(Constructed /\ lifespan.entered' = lifespan.entered) =>
              LET old == github_client.session
                  new == github_client'.session
              IN  IF \E q \in Tasks : pc[q] = "idle" /\ pc'[q] = "awaiting"
                  THEN IF Unusable(old)
                       THEN new = [id |-> old.id + 1, closed |-> FALSE]
                       ELSE new = old
                  ELSE IF lifespan'.active < lifespan.active
                       THEN IF Unusable(old)
                            THEN new = old
                            ELSE new = [id |-> old.id, closed |-> TRUE]
                       ELSE new = old]_vars

\* C15 witness: the first session was closed by a shutdown; a later request
\* found it closed and works with a second session, the only open one.
C15_Witness ==
    /\ Constructed
    /\ github_client.session = [id |-> 2, closed |-> FALSE]
    /\ open_sessions = {2}
    /\ \E q \in Tasks : pc[q] = "awaiting"

-----------------------------------------------------------------------------
(* C16 *)

TokenMissing == "GITHUB_TOKEN" \notin DOMAIN environ \/ environ["GITHUB_TOKEN"] = ""
UrlMissing ==
    "GITHUB_ENTERPRISE_URL" \notin DOMAIN environ \/ environ["GITHUB_ENTERPRISE_URL"] = <<>>

\* C16: without a token, or with an empty one, the start ends with the error
\* that names GITHUB_TOKEN, also when the URL is missing too; with a token but
\* no URL, or an empty one, it ends with the error that names
\* GITHUB_ENTERPRISE_URL; in both cases no client is ever constructed and no
\* call is ever served.  With both the server starts.
C16_StartupNeedsTokenThenUrl ==
    /\ (TokenMissing \/ UrlMissing) =>
           /\ ~Constructed
           /\ lifespan.active = 0
           /\ \A q \in Tasks : pc[q] = "idle" /\ reqs[q] = <<>> /\ result[q] = <<>>
    /\ (lifespan.entered >= 1 /\ TokenMissing) =>
           /\ lifespan.error # <<>>
           /\ lifespan.error[1].kind = "ValueError"
           /\ lifespan.error[1].text = "GITHUB_TOKEN environment variable is required"
    /\ (lifespan.entered >= 1 /\ ~TokenMissing /\ UrlMissing) =>
           /\ lifespan.error # <<>>
           /\ lifespan.error[1].kind = "ValueError"
           /\ lifespan.error[1].text =
                  "GITHUB_ENTERPRISE_URL environment variable is required"
    /\ (lifespan.entered >= 1 /\ ~TokenMissing /\ ~UrlMissing) =>
           /\ lifespan.error = <<>>
           /\ Constructed
           /\ github_client.token = environ["GITHUB_TOKEN"]

\* C16 witness: token and URL were both missing; the start has failed with
\* the error about the token.
C16_Witness ==
    /\ DOMAIN environ = {}
    /\ lifespan.entered = 1
    /\ lifespan.error # <<>>
    /\ lifespan.error[1].text = "GITHUB_TOKEN environment variable is required"
    /\ ~Constructed

-----------------------------------------------------------------------------
(* C17 *)

\* C17: a call with full_pagination=false sends exactly one request, without
\* page parameters, and what it returns comes from the body of that one
\* response, whether or not the response offers a next page; a call with
\* full_pagination=true that returns has read every page up to the first that
\* offers no next one.
C17_SinglePageOrAllPages ==
    \A q \in Tasks :
        pc[q] # "idle" =>
            /\ ~call[q].full =>
                   /\ Len(reqs[q]) = 1
                   /\ DOMAIN reqs[q][1] = {}
                   /\ Len(resps[q]) <= 1
                   /\ pc[q] = "done" =>
                          LET body == resps[q][1].json
                          IN  /\ consumed_licenses_data[q] = <<body>>
                              /\ result[q][1].summary.total_seats_consumed =
                                     (IF "total_seats_consumed" \in DOMAIN body
                                      THEN body["total_seats_consumed"] ELSE 0)
                              /\ (call[q].include_users /\ "seats" \in DOMAIN body) =>
                                     Len(result[q][1].users[1]) = Len(body["seats"])
            /\ (call[q].full /\ pc[q] = "done") =>
                   /\ Len(reqs[q]) = Len(resps[q])
                   /\ \A i \in DOMAIN resps[q] :
                          OffersNext(resps[q][i]) <=> i < Len(resps[q])
                   /\ consumed_licenses_data[q][1].seats = ConcatSeats(resps[q])

\* C17 witness: a call with full_pagination=false has returned the two seats
\* of a page that offered a next one, after a single request.
C17_Witness ==
    /\ pc["t1"] = "done"
    /\ ~call["t1"].full /\ call["t1"].include_users
    /\ Len(reqs["t1"]) = 1 /\ Len(resps["t1"]) = 1
    /\ OffersNext(resps["t1"][1])
    /\ result["t1"][1].users # <<>>
    /\ Len(result["t1"][1].users[1]) = 2

-----------------------------------------------------------------------------
(* C18 *)

\* C18: when the request for page k of a walk fails (no response, or a status
\* other than 200), the call fails with the error of that request; the pages
\* gathered before are neither returned nor kept in the client, and no
\* request follows the one that failed.
C18_FailedPageFailsWalk ==
    \A q \in Tasks :
        (Walking(q) /\ Len(resps[q]) >= 1 /\ ~IsPage(Last(resps[q]))) =>
            LET k == Len(resps[q])
                failed == resps[q][k]
            IN  /\ pc[q] = "failed"
                /\ error[q] # None
                /\ IF failed.raised
                   THEN error[q][1].kind = "ClientError"
                   ELSE /\ error[q][1].kind = "GitHub API error"
                        /\ error[q][1].status = failed.status
                        /\ error[q][1].text = failed.text
                /\ result[q] = None
                /\ consumed_licenses_data[q] = None
                /\ StoredEntry = None
                /\ Len(reqs[q]) = k
                /\ reqs[q][k].page = k
                /\ \A i \in 1..(k - 1) : IsPage(resps[q][i]) /\ OffersNext(resps[q][i])

\* C18 witness: the request for page 3 got a 502 after two pages with seats
\* had been gathered; the call has failed and returned nothing.
C18_Witness ==
    /\ pc["t1"] = "failed" /\ call["t1"].full
    /\ Len(resps["t1"]) = 3
    /\ resps["t1"][3].status = 502
    /\ Len(all_results["t1"].seats) >= 2
    /\ result["t1"] = None
    /\ Len(reqs["t1"]) = 3

-----------------------------------------------------------------------------
(* C19 *)

\* The response ends a walk: it is a failure or a page without next link.
Terminal(r) == ~IsPage(r) \/ ~OffersNext(r)

\* C19: a walk has ended exactly when its last response is a failure or a
\* page that offers no next one; as long as every response is a page that
\* offers a next one the walk goes on, whatever the number of pages, with
\* the request for the following page sent; and every walk that is under way
\* ends or gets as far as the model follows it.
C19_EndsOnlyWhenUpstreamEnds ==
    /\ [](\A q \in Tasks :
             Walking(q) =>
                 /\ pc[q] \in {"done", "failed"}
                        <=> (Len(resps[q]) >= 1 /\ Terminal(Last(resps[q])))
                 /\ (\A i \in DOMAIN resps[q] : ~Terminal(resps[q][i])) =>
                        /\ pc[q] = "awaiting"
                        /\ Len(reqs[q]) = Len(resps[q]) + 1
                        /\ Last(reqs[q]).page = Len(resps[q]) + 1)
    /\ \A q \in Tasks :
           (pc[q] = "awaiting")
               ~> (pc[q] \in {"done", "failed"} \/ page[q] = MaxWalk)

\* C19 witness: every page so far offered a next one; the walk is past the
\* length of any chain of the other specifications, has sent the request for
\* the last page the model follows and has not ended.
C19_Witness ==
    /\ pc["t1"] = "awaiting"
    /\ page["t1"] = MaxWalk
    /\ MaxWalk > MaxPages
    /\ Len(resps["t1"]) = MaxWalk - 1
    /\ \A i \in DOMAIN resps["t1"] : OffersNext(resps["t1"][i])
    /\ Len(reqs["t1"]) = MaxWalk

-----------------------------------------------------------------------------
(* C20 *)

\* C20: the i-th request of a walk asks for page i with a page size of 100:
\* the walk starts at page 1 and asks for the pages in order, none twice and
\* none left out; the request for page p + 1 has been sent exactly when the
\* response for page p was a 200 that offered a next page; a walk that has
\* returned sent as many requests as there are pages up to and including the
\* first without a next one.
C20_PagesInOrder ==
    \A q \in Tasks :
        Walking(q) =>
            /\ Len(reqs[q]) >= 1
            /\ \A i \in DOMAIN reqs[q] : reqs[q][i] = [per_page |-> 100, page |-> i]
            /\ Len(resps[q]) <= Len(reqs[q])
            /\ Len(reqs[q]) <= Len(resps[q]) + 1
            /\ \A p \in DOMAIN resps[q] :
                   (p + 1 \in DOMAIN reqs[q])
                       <=> (IsPage(resps[q][p]) /\ OffersNext(resps[q][p]))
            /\ pc[q] = "done" =>
                   /\ IsPage(Last(resps[q])) /\ ~OffersNext(Last(resps[q]))
                   /\ Len(reqs[q]) =
                          First({p \in DOMAIN resps[q] : ~OffersNext(resps[q][p])})

\* C20 witness: a walk has returned after the requests for pages 1, 2 and 3,
\* the first two answered with a next page on offer.
C20_Witness ==
    /\ pc["t1"] = "done" /\ call["t1"].full
    /\ reqs["t1"] = << [per_page |-> 100, page |-> 1], [per_page |-> 100, page |-> 2],
                       [per_page |-> 100, page |-> 3] >>
    /\ OffersNext(resps["t1"][1]) /\ OffersNext(resps["t1"][2])
    /\ ~OffersNext(resps["t1"][3])

-----------------------------------------------------------------------------
(* C23 *)

\* C23: a per-user tool called with the empty username fails at once with the
\* error "Username is required": it sends no request, and the client, its
\* session included, is as it was before the call.
C23_EmptyUsernameFailsFirst ==
    /\ [](\A q \in Tasks :
             (call[q].op \in {"get_user_organizations", "get_user_enterprise_roles",
                              "get_user_detail"} /\ call[q].username = "") =>
                 /\ pc[q] = "failed"
                 /\ error[q] # <<>>
                 /\ error[q][1].kind = "ValueError"
                 /\ error[q][1].text = "Username is required"
                 /\ reqs[q] = <<>> /\ resps[q] = <<>>
                 /\ result[q] = <<>>)
    /\ [][\A q \in Tasks :
             (pc[q] = "idle" /\ pc'[q] # "idle" /\ call'[q].username = "") =>
                 /\ github_client' = github_client
                 /\ open_sessions' = open_sessions
                 /\ fetchedAt' = fetchedAt]_vars

\* C23 witness: after an earlier call had opened the session, a call with the
\* empty username has failed; the session is still the open one.
C23_Witness ==
    /\ pc["t1"] = "failed"
    /\ call["t1"].op = "get_user_detail" /\ call["t1"].username = ""
    /\ reqs["t1"] = <<>>
    /\ github_client.session = [id |-> 1, closed |-> FALSE]
    /\ open_sessions = {1}

\* The roles resource on t1 and one of the two tools on t2 have both ended a
\* read of the same username over the same chain of pages.
BothEnded ==
    /\ pc["t1"] \in {"done", "failed"}
    /\ pc["t2"] \in {"done", "failed"}
    /\ call["t1"].op = "get_github_user_roles"
    /\ call["t2"].op \in {"get_user_organizations", "get_user_enterprise_roles"}
    /\ call["t1"].username = call["t2"].username

\* C21: for a non-empty username and a finite chain of pages that all return
\* 200, the read of github://user/{username}/roles, which stops at the first
\* page holding the user, returns the organizations that get_user_organizations
\* returns and the enterprise_roles that get_user_enterprise_roles returns on
\* the same pages, and it fails with user-not-found exactly when they do.
C21_RolesResourceEqualsTools ==
    BothEnded =>
        /\ pc["t1"] = pc["t2"]
        /\ pc["t1"] = "failed" =>
               /\ error["t1"] = Some(UserNotFound(call["t1"].username))
               /\ error["t2"] = error["t1"]
        /\ pc["t1"] = "done" =>
               IF call["t2"].op = "get_user_organizations"
               THEN result["t1"][1].organizations = result["t2"][1]
               ELSE result["t1"][1].enterprise_roles = result["t2"][1]

\* C21 witness: the resource found "alice" on the first of several pages and
\* read no further, the organizations tool read every page, a later one
\* holding a second seat of that login with other roles, and both returned
\* the organizations of the first seat.
C21_Witness ==
    /\ BothEnded
    /\ call["t1"].username = "alice"
    /\ call["t2"].op = "get_user_organizations"
    /\ pc["t1"] = "done"
    /\ Len(resps["t1"]) = 1
    /\ Len(resps["t2"]) = Len(upstream)
    /\ \E p \in 2..Len(upstream) :
           FindUser(Get(upstream[p], "seats", <<>>), "alice") = Some(SeatA2)
    /\ result["t2"] = Some(<< [organization |-> <<"acme">>, role |-> <<"Owner">>] >>)
    /\ result["t1"][1].organizations = result["t2"][1]

\* The step is one of a resource handler running as task q, or hands its
\* outcome to the host.
ResourceStep(q) ==
    /\ call[q].op \in Resources \/ call'[q].op \in Resources
    /\ <<pc[q], call[q], page[q], resps[q]>>' # <<pc[q], call[q], page[q], resps[q]>>

\* C22: each resource handler opens a session of its own and closes it on
\* every way out: while it waits for a page its session is open, once it has
\* returned or failed (a result, a status other than 200 at any page, a
\* connection error, user not found) its session is closed, and no step of it
\* closes or replaces the session of the shared client.
C22_PrivateSessionClosedOnEveryExit ==
    /\ [](\A q \in Tasks :
             call[q].op \in Resources =>
                 /\ pc[q] = "awaiting" => private_session[q] = NewSession
                 /\ pc[q] \in {"done", "failed"} =>
                        private_session[q] = [NewSession EXCEPT !.closed = TRUE])
    /\ [][\A q \in Tasks :
             ResourceStep(q) =>
                 /\ github_client' = github_client
                 /\ open_sessions' = open_sessions]_vars

\* C22 witness: the roles resource has failed on its second page with user
\* not found and its session is closed, while the shared client's session is
\* open and a tool waits for a response on it.
C22_Witness ==
    /\ call["t1"].op = "get_github_user_roles"
    /\ pc["t1"] = "failed"
    /\ Len(resps["t1"]) = 2
    /\ error["t1"] = Some(UserNotFound(call["t1"].username))
    /\ private_session["t1"].closed
    /\ pc["t2"] = "awaiting"
    /\ ~Unusable(github_client.session)
    /\ open_sessions # {}

====
